---- MODULE Spec2Model ----
(***************************************************************************)
(* Conversational memory of the companion chat application:                *)
(*   src/lib/memory.ts                    MemoryManager (Redis history)    *)
(*   src/app/api/chat/[chatId]/route.ts   POST handler (chat orchestrator) *)
(* Texts are sequences of one-character strings, so that split, join,      *)
(* length and member equality are computed as the code computes them.      *)
(***************************************************************************)
EXTENDS Integers, Sequences, FiniteSets, Bags, TLC

(***************************************************************************)
(* Bounds of the model.                                                    *)
(***************************************************************************)
\* Date.now() when the model starts: far above any seed line counter.
Epoch == 200
\* How far the clock advances during a run.
MaxTick == 1
\* Characters the completion stream delivers at most.
MaxResponse == 2
\* History calls made in a run of SpecHistory.
MaxCalls == 3
\* Appends made on top of a long seeded history in SpecRead.
MaxAppends == 2

(***************************************************************************)
(* Program constants.                                                      *)
(***************************************************************************)
\* readLatestHistory: result.slice(-100)
MaxRecent == 100
\* fullResponse.length > 1
MinResponseLength == 1

(***************************************************************************)
(* Strings.                                                                *)
(***************************************************************************)
NL == "\n"

\* UTF-16 code unit of the characters the model uses (Redis orders members of
\* equal score bytewise).
CharCode(c) ==
  CASE c = NL  -> 10
    [] c = " " -> 32
    [] c = "-" -> 45
    [] c = "4" -> 52
    [] c = ":" -> 58
    [] c = "U" -> 85
    [] c = "a" -> 97
    [] c = "b" -> 98
    [] c = "c" -> 99
    [] c = "e" -> 101
    [] c = "g" -> 103
    [] c = "h" -> 104
    [] c = "i" -> 105
    [] c = "p" -> 112
    [] c = "r" -> 114
    [] c = "s" -> 115
    [] c = "t" -> 116
    [] c = "u" -> 117
    [] OTHER   -> 0

\* where the first occurrence of d in s at or after position from starts (0: none)
IndexOf(s, d, from) ==
  LET hits == {i \in from..(Len(s) - Len(d) + 1) : SubSeq(s, i, i + Len(d) - 1) = d}
  IN IF hits = {} THEN 0 ELSE CHOOSE i \in hits : \A j \in hits : i <= j

RECURSIVE SplitFrom(_, _, _, _)
\* the first n pieces of s from position from on, cut at each occurrence of d in
\* turn, and the position after them (0 once s is used up); done half by half
SplitFrom(s, d, from, n) ==
  IF n <= 1
  THEN LET at == IndexOf(s, d, from)
       IN IF at = 0 THEN [pieces |-> <<SubSeq(s, from, Len(s))>>, next |-> 0]
          ELSE [pieces |-> <<SubSeq(s, from, at - 1)>>, next |-> at + Len(d)]
  ELSE LET first == SplitFrom(s, d, from, n \div 2)
       IN IF first.next = 0 THEN first
          ELSE LET rest == SplitFrom(s, d, first.next, n - n \div 2)
               IN [pieces |-> first.pieces \o rest.pieces, next |-> rest.next]

\* String.prototype.split(delimiter): a text of n characters has at most n + 1
\* pieces
split(s, d) ==
  IF d = <<>> THEN [i \in 1..Len(s) |-> <<s[i]>>]
  ELSE SplitFrom(s, d, 1, Len(s) + 1).pieces

RECURSIVE join(_, _)
\* Array.prototype.join(separator); the array is joined half by half
join(parts, sep) ==
  IF parts = <<>> THEN <<>>
  ELSE IF Len(parts) = 1 THEN parts[1]
  ELSE LET h == Len(parts) \div 2
       IN join(SubSeq(parts, 1, h), sep) \o sep \o join(SubSeq(parts, h + 1, Len(parts)), sep)

\* Array.prototype.reverse()
reverse(a) == [i \in 1..Len(a) |-> a[Len(a) + 1 - i]]

\* Array.prototype.slice(0, n): the first n
sliceFirst(a, n) == IF Len(a) <= n THEN a ELSE SubSeq(a, 1, n)
\* Array.prototype.slice(-n): the last n
sliceLast(a, n) == IF Len(a) <= n THEN a ELSE SubSeq(a, Len(a) - n + 1, Len(a))

RECURSIVE StrLess(_, _)
\* bytewise (memcmp) order of two members
StrLess(a, b) ==
  IF b = <<>> THEN FALSE
  ELSE IF a = <<>> THEN TRUE
  ELSE IF CharCode(Head(a)) # CharCode(Head(b))
       THEN CharCode(Head(a)) < CharCode(Head(b))
       ELSE StrLess(Tail(a), Tail(b))

(***************************************************************************)
(* Companion keys.                                                         *)
(***************************************************************************)
Undefined == <<"undefined">>
NullKey == [null |-> TRUE]

CompanionId == <<"c">>
UserId == <<"u">>
ModelName == <<"g", "p", "t", "-", "4">>

\* route.ts: const companionKey = { companionName, userId, modelName: "gpt-4" }
CompanionKey(companionId, userId) ==
  [companionName |-> companionId, modelName |-> ModelName, userId |-> userId]

TheKey == CompanionKey(CompanionId, UserId)
\* a key object whose userId is absent
KeyNoUser == CompanionKey(CompanionId, Undefined)

generateRedisCompanionKey(companionKey) ==
  companionKey.companionName \o <<"-">> \o companionKey.modelName
    \o <<"-">> \o companionKey.userId

\* the keys the model's companion keys derive: `${undefined}` renders as "undefined"
RedisKeys == {generateRedisCompanionKey(TheKey), generateRedisCompanionKey(KeyNoUser)}

\* !companionKey || typeof companionKey.userId == "undefined"
KeySetIncorrectlyNoUserCheck(companionKey) == companionKey = NullKey
KeySetIncorrectly(companionKey) ==
  \/ companionKey = NullKey
  \/ companionKey.userId = Undefined

(***************************************************************************)
(* The Redis sorted sets behind this.history: a key holds a set of         *)
(* (member, score) pairs with unique members.                              *)
(***************************************************************************)
Entry(member, score) == [member |-> member, score |-> score]

\* ZADD key score member: a member already present is moved to the new score.
zadd(zset, score, member) ==
  {e \in zset : e.member # member} \cup {Entry(member, score)}

\* number of members ZADD reports as added
zaddResult(zset, member) == IF \E e \in zset : e.member = member THEN 0 ELSE 1

\* EXISTS key
exists(zset) == zset # {}

\* rank order of a sorted set: by score, ties by member
Before(e, f) ==
  \/ e.score < f.score
  \/ e.score = f.score /\ StrLess(e.member, f.member)

\* entries of one score, in member order
SortTies(zset) ==
  LET rank == [e \in zset |-> Cardinality({f \in zset : Before(f, e)})]
  IN [i \in 1..Cardinality(zset) |-> CHOOSE e \in zset : rank[e] = i - 1]

RECURSIVE SortEntries(_, _, _)
\* the entries with min <= score <= max in rank order (the score range is halved
\* until one score is left)
SortEntries(zset, min, max) ==
  IF zset = {} THEN <<>>
  ELSE IF min >= max THEN SortTies(zset)
  ELSE LET mid == (min + max) \div 2
       IN SortEntries({e \in zset : e.score <= mid}, min, mid)
            \o SortEntries({e \in zset : e.score > mid}, mid + 1, max)

\* ZRANGE key min max BYSCORE
zrange(zset, min, max) ==
  SortEntries({e \in zset : min <= e.score /\ e.score <= max}, min, max)

Members(entries) == [i \in 1..Len(entries) |-> entries[i].member]

(***************************************************************************)
(* State.                                                                  *)
(***************************************************************************)
VARIABLES
  store,     \* this.history: Redis key -> sorted set
  now,       \* Date.now()
  messages,  \* the relational message table, in creation order
  seed,      \* companion.seed of the companion the requests talk to
  req,       \* the POST requests in flight: request -> its locals
  call,      \* the MemoryManager call made last (SpecHistory, SpecRead)
  ncalls     \* calls made so far (SpecHistory, SpecRead)

vars == <<store, now, messages, seed, req, call, ncalls>>

Reqs == {"r1", "r2"}

\* a request that has not arrived yet
IdleRequest ==
  [pc |-> "idle", status |-> 0, prompt |-> <<>>, user |-> <<>>, chatId |-> <<>>,
   success |-> "idle", companion |-> "idle", userMessage |-> "idle",
   recentMessages |-> <<>>, records |-> <<>>, search |-> "none",
   content |-> <<>>, counter |-> 0,
   fullResponse |-> <<>>, enqueued |-> <<>>, stream |-> "none",
   saveHistory |-> "idle", saveMessage |-> "idle",
   timer |-> "none", trace |-> <<>>]

(***************************************************************************)
(* MemoryManager. Each operation is the whole call, run without another    *)
(* call in between; it yields the store it leaves and what it returns.     *)
(***************************************************************************)
Returned(st, value) == [store |-> st, value |-> value, raised |-> FALSE]
\* a TypeError leaves the store as it was
Raised(st) == [store |-> st, value |-> <<>>, raised |-> TRUE]

writeToHistory(st, text, companionKey, t) ==
  IF KeySetIncorrectly(companionKey) THEN Returned(st, <<>>)
  ELSE LET key == generateRedisCompanionKey(companionKey)
       IN Returned([st EXCEPT ![key] = zadd(@, t, text)],
                   <<zaddResult(st[key], text)>>)

\* the array joined at memory.ts:112
readLatestMembers(st, companionKey, t) ==
  LET key == generateRedisCompanionKey(companionKey)
      result == Members(zrange(st[key], 0, t))
      sliced == reverse(sliceLast(result, MaxRecent))
  IN reverse(sliced)

readLatestHistory(st, companionKey, t) ==
  IF KeySetIncorrectly(companionKey) THEN Returned(st, <<>>)
  ELSE Returned(st, join(readLatestMembers(st, companionKey, t), <<NL>>))

\* what vectorStore.similaritySearch does: it resolves with documents, or the
\* embedding or the index query throws
SearchOutcomes == {"docs", "error"}
Docs == <<"doc">>

\* vectorSearch: try { return await similaritySearch(...) } catch { return [] }
vectorSearchUncaught(outcome) ==
  [value |-> IF outcome = "error" THEN <<>> ELSE Docs, raised |-> outcome = "error"]
vectorSearch(outcome) ==
  [value |-> IF outcome = "error" THEN <<>> ELSE Docs, raised |-> FALSE]

\* if (await this.history.exists(key)) return
NeverHasChatHistory(zset) == FALSE
UserAlreadyHasChatHistory(zset) == exists(zset)

\* one pass of the loop over content: zadd(key, {score: counter, member: line})
seedLine(zset, content, counter) == zadd(zset, counter, content[counter + 1])

RECURSIVE seedLoop(_, _, _, _)
\* the passes counter = from .. to - 1 of the loop, in order, run half by half
\* (Cardinality(half) >= 0 is always true: it has the first half computed first)
seedLoop(zset, content, from, to) ==
  IF from >= to THEN zset
  ELSE IF to = from + 1 THEN seedLine(zset, content, from)
  ELSE LET mid == (from + to) \div 2
           half == seedLoop(zset, content, from, mid)
       IN IF Cardinality(half) >= 0 THEN seedLoop(half, content, mid, to) ELSE {}

seedChatHistory(st, seedContent, delimiter, companionKey) ==
  IF companionKey = NullKey THEN Raised(st)
  ELSE LET key == generateRedisCompanionKey(companionKey)
       IN IF UserAlreadyHasChatHistory(st[key]) THEN Returned(st, <<>>)
          ELSE Returned([st EXCEPT ![key] = LET content == split(seedContent, delimiter)
                                          IN seedLoop(@, content, 0, Len(content))],
                        <<>>)

(***************************************************************************)
(* Inputs.                                                                 *)
(***************************************************************************)
Texts == {<<>>, <<"a">>, <<"b">>}
SeedContents == {<<>>, <<"a", NL, NL, "b">>, <<"a", NL, NL, "a">>}
DefaultDelimiter == <<NL>>
RouteDelimiter == <<NL, NL>>
Delimiters == {DefaultDelimiter, RouteDelimiter}
Keys == {TheKey, KeyNoUser, NullKey}

RECURSIVE Bin(_)
\* the lines of a long seed: pairwise different texts
Bin(i) == IF i = 0 THEN <<>> ELSE Bin(i \div 2) \o <<IF i % 2 = 0 THEN "a" ELSE "b">>
LongSeed(n) == join([i \in 1..n |-> Bin(i)], DefaultDelimiter)
LongSeedContents == {LongSeed(n) : n \in {MaxRecent - 1, MaxRecent, MaxRecent + 1}}

(***************************************************************************)
(* SpecHistory: MemoryManager calls made one after another.                *)
(***************************************************************************)
NoCall ==
  [op |-> "none", key |-> NullKey, text |-> <<>>, delimiter |-> <<>>, t |-> 0,
   before |-> [k \in RedisKeys |-> {}], value |-> <<>>, members |-> <<>>,
   raised |-> FALSE]

InitHistory ==
  /\ store = [k \in RedisKeys |-> {}]
  /\ now = Epoch
  /\ messages = <<>>
  /\ seed = <<>>
  /\ req = [r \in Reqs |-> IdleRequest]
  /\ call = NoCall
  /\ ncalls = 0

\* the clock a call reads: it may have advanced since the call before
Clock == {t \in {now, now + 1} : t <= Epoch + MaxTick}

CallWrite(text, companionKey, t) ==
  LET r == writeToHistory(store, text, companionKey, t)
  IN /\ store' = r.store
     /\ now' = t
     /\ call' = [op |-> "write", key |-> companionKey, text |-> text,
                 delimiter |-> <<>>, t |-> t, before |-> store,
                 value |-> r.value, members |-> <<>>, raised |-> r.raised]
     /\ ncalls' = ncalls + 1
     /\ UNCHANGED <<messages, seed, req>>

CallRead(companionKey, t) ==
  LET r == readLatestHistory(store, companionKey, t)
  IN /\ store' = r.store
     /\ now' = t
     /\ call' = [op |-> "read", key |-> companionKey, text |-> <<>>,
                 delimiter |-> <<>>, t |-> t, before |-> store,
                 value |-> r.value,
                 members |-> IF KeySetIncorrectly(companionKey) THEN <<>>
                             ELSE readLatestMembers(store, companionKey, t),
                 raised |-> r.raised]
     /\ ncalls' = ncalls + 1
     /\ UNCHANGED <<messages, seed, req>>

CallSeed(seedContent, delimiter, companionKey) ==
  LET r == seedChatHistory(store, seedContent, delimiter, companionKey)
  IN /\ store' = r.store
     /\ now' = now
     /\ call' = [op |-> "seed", key |-> companionKey, text |-> seedContent,
                 delimiter |-> delimiter, t |-> now, before |-> store,
                 value |-> r.value, members |-> <<>>, raised |-> r.raised]
     /\ ncalls' = ncalls + 1
     /\ UNCHANGED <<messages, seed, req>>

HWrite == \E text \in Texts, k \in Keys, t \in Clock :
            ncalls < MaxCalls /\ CallWrite(text, k, t)
HRead == \E k \in Keys, t \in Clock : ncalls < MaxCalls /\ CallRead(k, t)
HSeed == \E c \in SeedContents, d \in Delimiters, k \in Keys :
           ncalls < MaxCalls /\ CallSeed(c, d, k)

NextHistory == HWrite \/ HRead \/ HSeed
SpecHistory == InitHistory /\ [][NextHistory]_vars

(***************************************************************************)
(* SpecRead: reads of a history longer than the window readLatestHistory   *)
(* keeps.                                                                  *)
(***************************************************************************)
RSeed == \E c \in LongSeedContents :
           ncalls = 0 /\ CallSeed(c, DefaultDelimiter, TheKey)
\* a new text, the oldest member again, a member of the window again
RWrite == \E text \in {<<"a">>, Bin(1), Bin(MaxRecent)}, t \in Clock :
            /\ 0 < ncalls /\ ncalls <= MaxAppends
            /\ CallWrite(text, TheKey, t)
RRead == \E t \in Clock :
           /\ 0 < ncalls /\ ncalls <= MaxAppends + 1
           /\ CallRead(TheKey, t)

NextRead == RSeed \/ RWrite \/ RRead
SpecRead == InitHistory /\ [][NextRead]_vars

(***************************************************************************)
(* The chat orchestrator: POST of route.ts. A request is a sequence of     *)
(* steps, one per awaited call; requests interleave at these steps.        *)
(***************************************************************************)
\* how many recent turns the companion is loaded with: take: 50
MaxTurns == 50

NoUser == <<>>
Users == {UserId, NoUser}
Prompts == {<<"h", "i">>}
\* the companion of the model, and the id of no companion
ChatIds == {CompanionId, <<"x">>}
\* part.choices[0]?.delta?.content || ''
Chunks == {<<>>, <<"a">>}

\* `User: ${prompt}\n`
UserTurn(prompt) == <<"U", "s", "e", "r", ":", " ">> \o prompt \o <<NL>>

Whitespace == {" ", NL}
RECURSIVE trimStart(_)
trimStart(s) ==
  IF s # <<>> /\ Head(s) \in Whitespace THEN trimStart(Tail(s)) ELSE s
\* String.prototype.trim()
trim(s) == reverse(trimStart(reverse(trimStart(s))))

Message(content, role, userId, companionId) ==
  [content |-> content, role |-> role, userId |-> userId, companionId |-> companionId]

\* take: n
take(rows, n) == IF Len(rows) <= n THEN rows ELSE SubSeq(rows, 1, n)

\* include: messages where userId, orderBy createdAt desc, take 50
LoadRecent(chatId, userId) ==
  take(reverse(SelectSeq(messages,
                               LAMBDA m : m.companionId = chatId /\ m.userId = userId)),
             MaxTurns)

\* await Promise.all([...]) resumes once the three operations have settled
RateLimitSettled(q) == q.success # "pending"
AllSettled(q) ==
  /\ q.success # "pending"
  /\ q.companion # "pending"
  /\ q.userMessage # "pending"

\* Promise.all rejects as soon as one operation rejects
AnyRejected(q) == "error" \in {q.success, q.companion, q.userMessage}

\* the order of the history steps of one request: what follows the context load,
\* the seeding and the user-turn append
SuccessorGenerateFirst(step, q) ==
  CASE step = "context" -> IF Len(q.records) = 0 THEN "seedExists" ELSE "create"
    [] step = "seeded" -> "create"
    [] step = "appended" -> "create"
Successor(step, q) ==
  CASE step = "context" -> IF Len(q.records) = 0 THEN "seedExists" ELSE "userAppend"
    [] step = "seeded" -> "userAppend"
    [] step = "appended" -> "create"

\* if (fullResponse.length > 1)
ShouldSaveNonEmpty(fullResponse) == Len(fullResponse) > 0
ShouldSave(fullResponse) == Len(fullResponse) > MinResponseLength

\* the steps between openai.chat.completions.create and the end of the stream
Generating == {"create", "streaming"}

Set(r, fields) == req' = [req EXCEPT ![r] = fields @@ @]
Log(r, event) == Append(req[r].trace, event)
KeyOf(r) == CompanionKey(req[r].chatId, req[r].user)
RedisKeyOf(r) == generateRedisCompanionKey(KeyOf(r))

\* clearTimeout(timeoutId) of the catch block
ClearTimeout(timer) == IF timer = "armed" THEN "cleared" ELSE timer

Init ==
  /\ store = [k \in RedisKeys |-> {}]
  /\ now = Epoch
  /\ messages = <<>>
  /\ seed \in SeedContents
  /\ req = [r \in Reqs |-> IdleRequest]
  /\ call = NoCall
  /\ ncalls = 0

\* the locals of a request that has returned are gone
Return(r, status) ==
  [pc |-> "done", status |-> status, recentMessages |-> <<>>, records |-> <<>>,
   search |-> "none", content |-> <<>>, counter |-> 0]

\* the three operations of Promise.all are started once the user is known
NoOperations == [success |-> "idle", companion |-> "idle", userMessage |-> "idle"]
StartOperations ==
  [success |-> "pending", companion |-> "pending", userMessage |-> "pending"]
OperationsForAnyone(user) == StartOperations
OperationsFor(user) == IF user = NoUser THEN NoOperations ELSE StartOperations

\* POST is called: the timer is armed, the body and the user are read;
\* if (!user?.id) return 401; otherwise the three operations are started.
\* (The requests are alike: r2 is the one that arrives second.)
Arrive(r) ==
  /\ req[r].pc = "idle"
  /\ \A o \in Reqs : req[o].pc = "idle" => (r = "r1" \/ o # "r1")
  /\ \E prompt \in Prompts, user \in Users, chatId \in ChatIds :
       LET q == [prompt |-> prompt, user |-> user, chatId |-> chatId,
                 timer |-> "armed"]
       IN IF user = NoUser
          THEN Set(r, Return(r, 401) @@ OperationsFor(user) @@ q)
          ELSE Set(r, [pc |-> "rateChecked"] @@ OperationsFor(user) @@ q)
  /\ UNCHANGED <<store, now, messages, seed, call, ncalls>>

\* ratelimit(identifier)
RateLimit(r) ==
  /\ req[r].success = "pending"
  /\ \E outcome \in {"ok", "denied", "error"} : Set(r, [success |-> outcome])
  /\ UNCHANGED <<store, now, messages, seed, call, ncalls>>

\* prismadb.companion.findUnique({ where: { id: chatId }, include: { messages } })
FindCompanion(r) ==
  /\ req[r].companion = "pending"
  /\ \/ IF req[r].chatId = CompanionId
        THEN Set(r, [companion |-> "found",
                     recentMessages |-> LoadRecent(req[r].chatId, req[r].user)])
        ELSE Set(r, [companion |-> "missing"])
     \/ Set(r, [companion |-> "error"])
  /\ UNCHANGED <<store, now, messages, seed, call, ncalls>>

\* prismadb.message.create({ data: { content: prompt, role: "user", ... } })
CreateMessage(r) ==
  /\ req[r].userMessage = "pending"
  /\ \/ /\ messages' = Append(messages,
                              Message(req[r].prompt, "user", req[r].user, req[r].chatId))
        /\ Set(r, [userMessage |-> "created"])
     \/ /\ Set(r, [userMessage |-> "error"])
        /\ UNCHANGED messages
  /\ UNCHANGED <<store, now, seed, call, ncalls>>

\* the three operations have resolved: 429, 404 or on to the history
RateChecked(r) ==
  /\ req[r].pc = "rateChecked"
  /\ AllSettled(req[r])
  /\ ~AnyRejected(req[r])
  /\ IF req[r].success = "denied" THEN Set(r, Return(r, 429))
     ELSE IF req[r].companion = "missing" THEN Set(r, Return(r, 404))
     ELSE Set(r, [pc |-> "readRecords"])
  /\ UNCHANGED <<store, now, messages, seed, call, ncalls>>

\* one of the three operations rejected: the catch block answers 500
RateCheckedRejects(r) ==
  /\ req[r].pc = "rateChecked"
  /\ AnyRejected(req[r])
  /\ Set(r, [timer |-> ClearTimeout(req[r].timer)] @@ Return(r, 500))
  /\ UNCHANGED <<store, now, messages, seed, call, ncalls>>

\* records = readLatestHistory(companionKey)
ReadRecords(r) ==
  /\ req[r].pc = "readRecords"
  /\ Set(r, [pc |-> "vectorSearch",
             records |-> readLatestHistory(store, KeyOf(r), now).value,
             trace |-> Log(r, "read")])
  /\ UNCHANGED <<store, now, messages, seed, call, ncalls>>

\* the second readLatestHistory and vectorSearch resolve and Promise.all with
\* them; relevantHistory is built from similarDocs and not used
VectorSearch(r) ==
  /\ req[r].pc = "vectorSearch"
  /\ \E outcome \in SearchOutcomes :
       LET similarDocs == vectorSearch(outcome)
       IN IF similarDocs.raised
          THEN Set(r, [search |-> outcome, timer |-> ClearTimeout(req[r].timer)]
                      @@ Return(r, 500))
          ELSE Set(r, [pc |-> Successor("context", req[r]), search |-> outcome])
  /\ UNCHANGED <<store, now, messages, seed, call, ncalls>>

\* seedChatHistory: if (await this.history.exists(key)) return; content = split
SeedExists(r) ==
  /\ req[r].pc = "seedExists"
  /\ IF UserAlreadyHasChatHistory(store[RedisKeyOf(r)])
     THEN Set(r, [pc |-> Successor("seeded", req[r])])
     ELSE LET content == split(seed, RouteDelimiter)
          IN Set(r, [pc |-> IF Len(content) = 0 THEN Successor("seeded", req[r])
                            ELSE "seedLoop",
                     content |-> content, counter |-> 0])
  /\ UNCHANGED <<store, now, messages, seed, call, ncalls>>

\* seedChatHistory: one await this.history.zadd(key, { score: counter, member: line })
SeedWrite(r) ==
  /\ req[r].pc = "seedLoop"
  /\ store' = [store EXCEPT ![RedisKeyOf(r)] =
                 seedLine(@, req[r].content, req[r].counter)]
  /\ Set(r, [pc |-> IF req[r].counter + 1 < Len(req[r].content) THEN "seedLoop"
                    ELSE Successor("seeded", req[r]),
             counter |-> req[r].counter + 1,
             trace |-> Log(r, "seed")])
  /\ UNCHANGED <<now, messages, seed, call, ncalls>>

\* await memoryManager.writeToHistory(`User: ${prompt}\n`, companionKey)
UserAppend(r) ==
  /\ req[r].pc = "userAppend"
  /\ \E t \in Clock :
       /\ now' = t
       /\ store' = writeToHistory(store, UserTurn(req[r].prompt), KeyOf(r), t).store
  /\ Set(r, [pc |-> Successor("appended", req[r]), trace |-> Log(r, "user")])
  /\ UNCHANGED <<messages, seed, call, ncalls>>

\* openai.chat.completions.create resolves; the streaming response (200) is
\* returned. The locals read to build the prompt are not read again.
CreateCompletion(r) ==
  /\ req[r].pc = "create"
  /\ Set(r, [pc |-> "streaming", status |-> 200, stream |-> "open",
             trace |-> Log(r, "generate"),
             recentMessages |-> <<>>, records |-> <<>>, search |-> "none",
             content |-> <<>>, counter |-> 0])
  /\ UNCHANGED <<store, now, messages, seed, call, ncalls>>

\* one part of the stream: accumulated and enqueued when its text is not empty
StreamPart(r) ==
  /\ req[r].pc = "streaming"
  /\ \E text \in Chunks :
       /\ Len(req[r].fullResponse \o text) <= MaxResponse
       /\ Set(r, [fullResponse |-> req[r].fullResponse \o text,
                  enqueued |-> req[r].enqueued \o text])
  /\ UNCHANGED <<store, now, messages, seed, call, ncalls>>

\* the stream ends: both saves are started when the response is long enough
StreamEnd(r) ==
  /\ req[r].pc = "streaming"
  /\ IF ShouldSave(req[r].fullResponse)
     THEN Set(r, [pc |-> "saving", saveHistory |-> "pending",
                  saveMessage |-> "pending", trace |-> Log(r, "end")])
     ELSE Set(r, [pc |-> "finally", trace |-> Log(r, "end")])
  /\ UNCHANGED <<store, now, messages, seed, call, ncalls>>

\* the stream throws: controller.error(error)
StreamError(r) ==
  /\ req[r].pc = "streaming"
  /\ Set(r, [pc |-> "finally", stream |-> "errored"])
  /\ UNCHANGED <<store, now, messages, seed, call, ncalls>>

\* memoryManager.writeToHistory(fullResponse.trim(), companionKey)
SaveHistory(r) ==
  /\ req[r].saveHistory = "pending"
  /\ \E t \in Clock :
       /\ now' = t
       /\ store' = writeToHistory(store, trim(req[r].fullResponse), KeyOf(r), t).store
  /\ Set(r, [saveHistory |-> "done", trace |-> Log(r, "history")])
  /\ UNCHANGED <<messages, seed, call, ncalls>>

\* prismadb.companion.update({ data: { messages: { create: { role: "system" } } } })
SaveMessage(r) ==
  /\ req[r].saveMessage = "pending"
  /\ messages' = Append(messages,
                        Message(trim(req[r].fullResponse), "system",
                                req[r].user, req[r].chatId))
  /\ Set(r, [saveMessage |-> "done", trace |-> Log(r, "message")])
  /\ UNCHANGED <<store, now, seed, call, ncalls>>

\* await Promise.all([writeToHistory(...), companion.update(...)])
HistorySaved(q) == q.saveHistory = "done"
BothSaved(q) == q.saveHistory = "done" /\ q.saveMessage = "done"

\* both saves have resolved
Saved(r) ==
  /\ req[r].pc = "saving"
  /\ BothSaved(req[r])
  /\ Set(r, [pc |-> "finally"])
  /\ UNCHANGED <<store, now, messages, seed, call, ncalls>>

\* finally { controller.close() }: the request is over and its record is dropped
\* (a timer still armed fires later, to no effect)
Close(r) ==
  /\ req[r].pc = "finally"
  /\ Set(r, [stream |-> IF req[r].stream = "open" THEN "closed" ELSE req[r].stream,
             fullResponse |-> <<>>, saveHistory |-> "idle", saveMessage |-> "idle",
             timer |-> "none", trace |-> <<>>] @@ Return(r, 200))
  /\ UNCHANGED <<store, now, messages, seed, call, ncalls>>

\* an awaited call of the try block rejects: 500 and clearTimeout
Awaiting ==
  {"readRecords", "vectorSearch", "seedExists", "seedLoop", "userAppend", "create"}
Throw(r) ==
  /\ req[r].pc \in Awaiting
  /\ Set(r, [timer |-> ClearTimeout(req[r].timer)] @@ Return(r, 500))
  /\ UNCHANGED <<store, now, messages, seed, call, ncalls>>

\* setTimeout(() => controller.abort(), 30000) fires. Nothing reads
\* controller.signal, so the step changes nothing the request reads; it is
\* modelled where generation is in flight.
Timeout(r) ==
  /\ req[r].timer = "armed"
  /\ req[r].pc \in Generating
  /\ Set(r, [timer |-> "fired"])
  /\ UNCHANGED <<store, now, messages, seed, call, ncalls>>

Next ==
  \E r \in Reqs :
    \/ Arrive(r)
    \/ RateLimit(r) \/ FindCompanion(r) \/ CreateMessage(r)
    \/ RateChecked(r) \/ RateCheckedRejects(r)
    \/ ReadRecords(r) \/ VectorSearch(r)
    \/ SeedExists(r) \/ SeedWrite(r) \/ UserAppend(r)
    \/ CreateCompletion(r) \/ StreamPart(r) \/ StreamEnd(r) \/ StreamError(r)
    \/ SaveHistory(r) \/ SaveMessage(r) \/ Saved(r) \/ Close(r)
    \/ Throw(r) \/ Timeout(r)

Spec == Init /\ [][Next]_vars

(***************************************************************************)
(* The pure parts of a request: the repetition filter over the recent      *)
(* turns (route.ts 101-142).                                               *)
(***************************************************************************)
\* similarity > 0.6, as the fraction 3/5
ThresholdNum == 3
ThresholdDen == 5

\* String.prototype.toLowerCase() on the letters of the model
LowerChar(c) ==
  CASE c = "A" -> "a"
    [] c = "B" -> "b"
    [] c = "U" -> "u"
    [] OTHER -> c
toLowerCase(s) == [i \in 1..Len(s) |-> LowerChar(s[i])]

\* content.toLowerCase().split(" ").filter(word => word.length > 0)
wordsOf(content) ==
  SelectSeq(split(toLowerCase(content), <<" ">>), LAMBDA word : Len(word) > 0)

\* words.forEach(word => map.set(word, (map.get(word) || 0) + 1))
wordMap(words) ==
  [word \in {words[i] : i \in DOMAIN words} |->
     Cardinality({i \in DOMAIN words : words[i] = word})]

min(a, b) == IF a <= b THEN a ELSE b
max(a, b) == IF a >= b THEN a ELSE b

RECURSIVE commonWords(_, _, _)
\* msgWordMap.forEach: commonWords += Math.min(count, promptCount) for the words
\* (those of todo still to come) that promptWordMap has
commonWords(msgWordMap, promptWordMap, todo) ==
  IF todo = {} THEN 0
  ELSE LET word == CHOOSE w \in todo : TRUE
       IN (IF word \in DOMAIN promptWordMap
           THEN min(msgWordMap[word], promptWordMap[word]) ELSE 0)
          + commonWords(msgWordMap, promptWordMap, todo \ {word})

\* commonWords / Math.max(msgWords.length, promptWords.length) > 0.6; 0 / 0 is
\* NaN, and NaN > 0.6 is false
atLeastThreshold(common, longest) ==
  IF longest = 0 THEN FALSE ELSE ThresholdDen * common >= ThresholdNum * longest
aboveThreshold(common, longest) ==
  IF longest = 0 THEN FALSE ELSE ThresholdDen * common > ThresholdNum * longest

\* the callback of recentMessages.filter
isSimilar(msg, prompt) ==
  IF msg.content = <<>> THEN FALSE
  ELSE LET msgWords == wordsOf(msg.content)
           promptWords == wordsOf(prompt)
           msgWordMap == wordMap(msgWords)
           promptWordMap == wordMap(promptWords)
       IN aboveThreshold(commonWords(msgWordMap, promptWordMap, DOMAIN msgWordMap),
                         max(Len(msgWords), Len(promptWords)))

similarMessages(recentMessages, prompt) ==
  SelectSeq(recentMessages, LAMBDA msg : isSimilar(msg, prompt))
\* similarMessages.length > 0
isRepetitive(recentMessages, prompt) == Len(similarMessages(recentMessages, prompt)) > 0
\* similarMessages[0]?.content || ""
lastResponse(recentMessages, prompt) ==
  LET similar == similarMessages(recentMessages, prompt)
  IN IF Len(similar) > 0 THEN similar[1].content ELSE <<>>

(***************************************************************************)
(* The history section of the prompt (route.ts 28-31, 170-173).            *)
(***************************************************************************)
\* .slice(-12) and .slice(-6)
HistoryLines == 12
SectionLines == 6
\* companion.name
CompanionName == <<"B">>

\* `${msg.role === 'user' ? 'User' : companion.name}: ${msg.content}`
formatTurn(msg, name) ==
  (IF msg.role = "user" THEN <<"U", "s", "e", "r">> ELSE name) \o <<":", " ">> \o msg.content

\* recentMessages.map(format).reverse().join("\n")
messageHistory(recentMessages, name) ==
  join(reverse([i \in 1..Len(recentMessages) |-> formatTurn(recentMessages[i], name)]),
       <<NL>>)

\* line => line.trim().length > 0
notBlank(line) == Len(trim(line)) > 0

\* createPromptTemplate: the lines joined under CONVERSATION HISTORY
historySection(history) ==
  sliceLast(SelectSeq(sliceLast(split(history, <<NL>>), HistoryLines), notBlank),
            SectionLines)

(***************************************************************************)
(* truncateText of vectorSearch (memory.ts 50-58).                         *)
(***************************************************************************)
\* maxTokens = 8000 and the factor 1.3, as the fraction 13/10
MaxTokens == 8000
TokenFactorNum == 13
TokenFactorDen == 10

RECURSIVE splitSpaces(_, _, _)
\* text.split(/\s+/) of the characters lo..hi of s: the pieces between the runs of
\* whitespace, with an empty piece before a leading run and after a trailing one.
\* The two halves are split and the pieces at the cut are put together.
splitSpaces(s, lo, hi) ==
  IF lo > hi THEN << <<>> >>
  ELSE IF lo = hi
  THEN IF s[lo] \in Whitespace THEN << <<>>, <<>> >> ELSE << <<s[lo]>> >>
  ELSE LET mid == (lo + hi) \div 2
           left == splitSpaces(s, lo, mid)
           right == splitSpaces(s, mid + 1, hi)
       IN IF s[mid] \in Whitespace /\ s[mid + 1] \in Whitespace
          THEN SubSeq(left, 1, Len(left) - 1) \o Tail(right)
          ELSE SubSeq(left, 1, Len(left) - 1)
               \o <<left[Len(left)] \o right[1]>> \o Tail(right)

\* Math.floor(maxTokens / 1.3)
targetWordsRoundedUp == (MaxTokens * TokenFactorDen) \div TokenFactorNum + 1
targetWords == (MaxTokens * TokenFactorDen) \div TokenFactorNum

\* words.slice(0, targetWords)
firstWords(words, n) == IF Len(words) <= n THEN words ELSE SubSeq(words, 1, n)

truncateText(text) ==
  LET words == splitSpaces(text, 1, Len(text))
  IN \* words.length * 1.3 <= maxTokens
     IF TokenFactorNum * Len(words) <= MaxTokens * TokenFactorDen THEN text
     ELSE join(firstWords(words, targetWords), <<" ">>)

(***************************************************************************)
(* SpecPrompt: turns are stored in the relational table, then a request    *)
(* loads them and applies the repetition filter or builds the history      *)
(* section of its prompt.                                                  *)
(***************************************************************************)
MaxStored == 6

\* the turns that get stored: a user turn, a reply with capitals and a double
\* space, a user turn that ends with blank lines, a turn without content
TurnChoices ==
  {Message(<<"a", " ", "b">>, "user", UserId, CompanionId),
   Message(<<"A", " ", " ", "b", " ", "c">>, "system", UserId, CompanionId),
   Message(<<"a", NL, NL, NL, NL, NL, NL, NL>>, "user", UserId, CompanionId),
   Message(<<>>, "system", UserId, CompanionId)}

\* const { prompt } = await request.json()
DetectPrompts ==
  {<<"a", " ", "b">>,
   <<"B", " ", "a">>,
   <<"a", " ", "a">>,
   <<"a", " ", "b", " ", "c", " ", "d", " ", "e">>,
   <<" ">>}

InitPrompt == InitHistory

\* prismadb.message.create / companion.update: one more stored turn
PTurn ==
  /\ call.op = "none"
  /\ Len(messages) < MaxStored
  /\ \E turn \in TurnChoices : messages' = Append(messages, turn)
  /\ UNCHANGED <<store, now, seed, req, call, ncalls>>

\* recentMessages, similarMessages, isRepetitive and lastResponse of a request
PDetect ==
  /\ call.op = "none"
  /\ \E prompt \in DetectPrompts :
       LET recentMessages == LoadRecent(CompanionId, UserId)
       IN call' = [op |-> "detect", prompt |-> prompt,
                   recentMessages |-> recentMessages,
                   isRepetitive |-> isRepetitive(recentMessages, prompt),
                   lastResponse |-> lastResponse(recentMessages, prompt)]
  /\ UNCHANGED <<store, now, messages, seed, req, ncalls>>

\* messageHistory of a request and the history lines of its prompt
PTemplate ==
  /\ call.op = "none"
  /\ LET history == messageHistory(LoadRecent(CompanionId, UserId), CompanionName)
     IN call' = [op |-> "template", messageHistory |-> history,
                 recentMessages |-> historySection(history)]
  /\ UNCHANGED <<store, now, messages, seed, req, ncalls>>

NextPrompt == PTurn \/ PDetect \/ PTemplate
SpecPrompt == InitPrompt /\ [][NextPrompt]_vars

(***************************************************************************)
(* SpecTruncate: truncateText applied to a text.                           *)
(***************************************************************************)
MaxShort == 4

RECURSIVE ShortTexts(_)
\* the texts of at most n characters over a letter, a space and a newline
ShortTexts(n) ==
  IF n = 0 THEN {<<>>}
  ELSE LET shorter == ShortTexts(n - 1)
       IN shorter \cup {Append(t, c) : t \in shorter, c \in {"a", " ", NL}}

\* n one-letter words, a space or a newline between them
LongText(n, sep) == [i \in 1..(2 * n - 1) |-> IF i % 2 = 1 THEN "a" ELSE sep]

\* texts of about targetWords words, bare, after a space and before a newline
LongTexts ==
  LET bare == {LongText(n, sep) : n \in (targetWords - 1)..(targetWords + 2),
                                  sep \in {<<" ">>[1], NL}}
  IN bare \cup {<<" ">> \o t : t \in bare} \cup {t \o <<NL>> : t \in bare}

InitTruncate == InitHistory

\* const truncatedHistory = truncateText(recentChatHistory)
TTruncate ==
  /\ call.op = "none"
  /\ \E text \in ShortTexts(MaxShort) \cup LongTexts :
       call' = [op |-> "truncate", text |-> text, value |-> truncateText(text)]
  /\ UNCHANGED <<store, now, messages, seed, req, ncalls>>

NextTruncate == TTruncate
SpecTruncate == InitTruncate /\ [][NextTruncate]_vars

(***************************************************************************)
(* Claims about the MemoryManager operations.                              *)
(***************************************************************************)
TheRedisKey == generateRedisCompanionKey(TheKey)
CallKeyMalformed == call.key = NullKey \/ call.key.userId = Undefined
CallRedisKey == generateRedisCompanionKey(call.key)

\* C2: seeding is idempotent. After a seedChatHistory call has returned, the same
\* call made again leaves the history with the same entries and the same entry
\* count; and a seedChatHistory call on a key that already has entries changes
\* nothing.
C2_SeedIdempotent ==
  (call.op = "seed" /\ ~call.raised) =>
    LET again == seedChatHistory(store, call.text, call.delimiter, call.key)
    IN /\ again.store = store
       /\ Cardinality(again.store[CallRedisKey]) = Cardinality(store[CallRedisKey])
       /\ (call.before[CallRedisKey] # {} => store = call.before)

\* a seed call on a key that holds one of the seed's lines at another score
C2_Witness ==
  /\ call.op = "seed" /\ call.key = TheKey
  /\ \E e \in call.before[TheRedisKey] :
       /\ e.score >= Epoch
       /\ \E i \in 1..Len(split(call.text, call.delimiter)) :
            split(call.text, call.delimiter)[i] = e.member
  /\ store = call.before

\* C8: readLatestHistory returns entries of the key, each once, in non-decreasing
\* score order, oldest first; they are min(100, n) of the n entries whose score
\* lies between 0 and the current time, no entry left out is more recent than a
\* returned one, and the text returned is these entries joined by newlines.
C8_ReadRecentOrdered ==
  (call.op = "read" /\ ~CallKeyMalformed) =>
    LET zset == store[CallRedisKey]
        ms == call.members
        window == {e \in zset : 0 <= e.score /\ e.score <= call.t}
        ScoreOf(m) == (CHOOSE e \in zset : e.member = m).score
        returned == {ms[i] : i \in 1..Len(ms)}
        n == Cardinality(window)
    IN /\ returned \subseteq {e.member : e \in window}
       /\ Cardinality(returned) = Len(ms)
       /\ Len(ms) = IF n < MaxRecent THEN n ELSE MaxRecent
       /\ \A i \in 1..(Len(ms) - 1) : ScoreOf(ms[i]) <= ScoreOf(ms[i + 1])
       /\ \A e \in window :
            e.member \notin returned => e.score <= ScoreOf(ms[1])
       /\ call.value = join(ms, <<NL>>)

\* a read of a history of more than 100 entries, written in two different score ranges
C8_Witness ==
  /\ call.op = "read" /\ call.key = TheKey
  /\ Cardinality(store[TheRedisKey]) > MaxRecent
  /\ Len(call.members) = MaxRecent
  /\ \E e \in store[TheRedisKey] : e.score >= Epoch /\ e.member = call.members[MaxRecent]

\* C9: history is append-only. Every writeToHistory on a well-formed key adds
\* exactly one entry and leaves every entry the key held as it was.
C9_AppendOnly ==
  (call.op = "write" /\ ~CallKeyMalformed) =>
    /\ Cardinality(store[CallRedisKey]) = Cardinality(call.before[CallRedisKey]) + 1
    /\ call.before[CallRedisKey] \subseteq store[CallRedisKey]

\* C10: with a malformed key (no key object, or no userId) writeToHistory and
\* readLatestHistory return the empty string, raise nothing and leave every
\* history as it was.
C10_MalformedKeySilent ==
  (call.op \in {"write", "read"} /\ CallKeyMalformed) =>
    /\ call.value = <<>>
    /\ ~call.raised
    /\ store = call.before

\* a write with a key without userId, after the well-formed key got entries
C10_Witness ==
  /\ call.op = "write" /\ call.key = KeyNoUser /\ call.text # <<>>
  /\ store[TheRedisKey] # {}
  /\ call.value = <<>>

(***************************************************************************)
(* Claims about the chat orchestrator.                                     *)
(***************************************************************************)
\* the request has done this step
Did(r, event) == \E i \in DOMAIN req[r].trace : req[r].trace[i] = event
Count(r, event) == Cardinality({i \in DOMAIN req[r].trace : req[r].trace[i] = event})
SeedLines == split(seed, RouteDelimiter)

\* C1: seeding occurs at most once per key. Of the requests on one key, at most
\* one performs seed writes, in any interleaving.
C1_SeedAtMostOnce ==
  \A r, o \in Reqs :
    (r # o /\ Did(r, "seed") /\ Did(o, "seed")) => RedisKeyOf(r) # RedisKeyOf(o)

\* C3: the first message ever on a key (no other request has arrived): when the
\* user turn has been appended, the request has written every seed line once,
\* all of them before the user turn, and the history holds len(seedLines) + 1
\* entries.
C3_FirstMessage ==
  \A r \in Reqs :
    (req[r].pc = "create" /\ \A o \in Reqs \ {r} : req[o].pc = "idle") =>
      /\ req[r].trace = <<"read">> \o [i \in 1..Len(SeedLines) |-> "seed"] \o <<"user">>
      /\ Cardinality(store[RedisKeyOf(r)]) = Len(SeedLines) + 1

\* the order of the steps of one request
Rank(event) ==
  CASE event = "read" -> 0
    [] event = "seed" -> 1
    [] event = "user" -> 2
    [] event = "generate" -> 3
    [] event = "end" -> 4
    [] event \in {"history", "message"} -> 5

\* C4: the steps of one request are strictly ordered: every seed write before
\* the user-turn append (which comes once all seed lines of a seeding request
\* are written), the user-turn append before generation is invoked, the end of
\* generation before the final response append.
C4_StrictOrder ==
  \A r \in Reqs :
    LET trace == req[r].trace
    IN /\ \A i, j \in DOMAIN trace : i < j => Rank(trace[i]) <= Rank(trace[j])
       /\ Count(r, "user") <= 1 /\ Count(r, "generate") <= 1 /\ Count(r, "end") <= 1
       /\ (Did(r, "seed") /\ Did(r, "user")) => Count(r, "seed") = Len(SeedLines)
       /\ Did(r, "generate") => Did(r, "user")
       /\ Did(r, "end") => Did(r, "generate")
       /\ (Did(r, "history") \/ Did(r, "message")) => Did(r, "end")

\* a request that seeded two lines, appended, generated and made both saves
C4_Witness ==
  \E r \in Reqs :
    /\ Count(r, "seed") = 2
    /\ Did(r, "history") /\ Did(r, "message")
    /\ req[r].pc = "finally"

\* C5: once the timeout has fired during generation, the request makes neither
\* the history write nor the relational write of the response.
C5_TimeoutSkipsPersistence ==
  \A r \in Reqs :
    req[r].timer = "fired" => (~Did(r, "history") /\ ~Did(r, "message"))

\* C6: a stream that ends with 0 or 1 characters accumulated starts no save and
\* makes neither the history write nor the relational write of the response.
C6_ShortResponseNotSaved ==
  \A r \in Reqs :
    (Did(r, "end") /\ Len(req[r].fullResponse) <= 1) =>
      /\ req[r].pc # "saving"
      /\ req[r].saveHistory = "idle" /\ req[r].saveMessage = "idle"
      /\ ~Did(r, "history") /\ ~Did(r, "message")

\* a stream that has ended after one character
C6_Witness ==
  \E r \in Reqs :
    /\ Did(r, "end") /\ Len(req[r].fullResponse) = 1
    /\ req[r].pc = "finally" /\ req[r].stream = "open"

\* C7: a request answered 429 has written its user turn to the relational store.
C7_RateLimitedTurnRecorded ==
  \A r \in Reqs :
    req[r].status = 429 =>
      /\ req[r].userMessage = "created"
      /\ \E i \in DOMAIN messages :
           messages[i] = Message(req[r].prompt, "user", req[r].user, req[r].chatId)

\* a request answered 429
C7_Witness ==
  \E r \in Reqs :
    /\ req[r].status = 429 /\ req[r].success = "denied"
    /\ Len(messages) > 0

\* C11: an embedding or vector-query error in vectorSearch is caught: the request
\* whose retrieval failed is not answered 500 by it and goes on to the seeding, the
\* user-turn append and the generation.
C11_VectorFailureAbsorbed ==
  \A r \in Reqs :
    req[r].search = "error" =>
      /\ req[r].status = 0
      /\ req[r].pc \in {"seedExists", "seedLoop", "userAppend", "create"}

\* a request whose retrieval failed has seeded, appended and is about to generate
C11_Witness ==
  \E r \in Reqs :
    /\ req[r].search = "error" /\ req[r].pc = "create"
    /\ Did(r, "seed") /\ Did(r, "user")

(***************************************************************************)
(* Claims about the pure parts of a request.                               *)
(***************************************************************************)
\* the words of a text as a bag
BagOfWords(words) ==
  [word \in {words[i] : i \in DOMAIN words} |->
     Cardinality({i \in DOMAIN words : words[i] = word})]

\* the overlap ratio of a recent text and the candidate is above 0.6: the size of
\* the intersection of the two bags of words against the larger word count
OverlapExceeds(text, candidate) ==
  LET a == wordsOf(text)
      b == wordsOf(candidate)
      shared == BagOfWords(a) (-) (BagOfWords(a) (-) BagOfWords(b))
      longer == IF Len(a) >= Len(b) THEN Len(a) ELSE Len(b)
  IN /\ Len(a) > 0 /\ Len(b) > 0
     /\ 5 * BagCardinality(shared) > 3 * longer

\* C12: the candidate is flagged exactly when some recent text has an overlap
\* ratio strictly above 0.6; the exemplar is the first such text in input order
\* (none when nothing matches); a text is no match when either word list is
\* empty.
C12_RepetitionDetector ==
  call.op = "detect" =>
    LET recent == call.recentMessages
        matches == {i \in DOMAIN recent : OverlapExceeds(recent[i].content, call.prompt)}
    IN /\ call.isRepetitive <=> matches # {}
       /\ matches # {} =>
            call.lastResponse =
              recent[CHOOSE i \in matches : \A j \in matches : i <= j].content
       /\ matches = {} => call.lastResponse = <<>>
       /\ wordsOf(call.prompt) = <<>> => ~call.isRepetitive

\* the candidate "a b c d e" against a first text with ratio 2/5, a second with
\* ratio exactly 3/5 and none above it: not flagged
C12_Witness ==
  /\ call.op = "detect" /\ ~call.isRepetitive
  /\ Len(wordsOf(call.prompt)) = 5
  /\ Len(call.recentMessages) >= 2
  /\ Len(wordsOf(call.recentMessages[1].content)) = 2
  /\ wordsOf(call.recentMessages[2].content) = << <<"a">>, <<"b">>, <<"c">> >>

\* the number of words text.split(/\s+/) finds: one more than the runs of
\* whitespace (an empty word stands before a leading and after a trailing run)
WordCount(text) ==
  1 + Cardinality({i \in 1..Len(text) :
                     /\ text[i] \in Whitespace
                     /\ (i = Len(text) \/ text[i + 1] \notin Whitespace)})

\* C13: truncateText never yields more than floor(8000 / 1.3) = 6153 words; it
\* returns the text unchanged when its word count times 1.3 is at most 8000; of a
\* longer text it yields exactly the first 6153 words.
C13_Truncation ==
  call.op = "truncate" =>
    LET words == splitSpaces(call.text, 1, Len(call.text))
        result == splitSpaces(call.value, 1, Len(call.value))
    IN /\ WordCount(call.value) <= 6153
       /\ 13 * WordCount(call.text) <= 80000 => call.value = call.text
       /\ 13 * WordCount(call.text) > 80000 => result = SubSeq(words, 1, 6153)

\* a text of 6154 words, newlines between them, cut to 6153
C13_Witness ==
  /\ call.op = "truncate"
  /\ WordCount(call.text) = 6154 /\ call.text[2] = NL
  /\ WordCount(call.value) = 6153 /\ call.value[2] = " "

\* C16: the history section holds at most 6 lines, and when the formatted
\* history has at least 6 non-empty lines it holds the last 6 of them, oldest
\* first.
C16_HistorySection ==
  call.op = "template" =>
    LET nonEmpty == SelectSeq(split(call.messageHistory, <<NL>>),
                              LAMBDA line : line # <<>>)
    IN /\ Len(call.recentMessages) <= 6
       /\ Len(nonEmpty) >= 6 =>
            call.recentMessages = SubSeq(nonEmpty, Len(nonEmpty) - 5, Len(nonEmpty))

(***************************************************************************)
(* More claims about the chat orchestrator.                                *)
(***************************************************************************)
\* C14: an exception raised before the response is persisted is answered with
\* the generic 500: a request whose first three operations rejected, and a
\* request whose generation stream threw, both have status 500.
C14_ExceptionAnswered500 ==
  \A r \in Reqs :
    (req[r].stream = "errored" \/ (req[r].pc = "done" /\ AnyRejected(req[r]))) =>
      req[r].status = 500

\* C15: after the stream has ended with more than one character, both writes are
\* issued, and the request passes the saves only when the history holds the
\* trimmed response and the relational table holds the turn with the same text.
C15_BothWritesThenPersisted ==
  \A r \in Reqs :
    (Did(r, "end") /\ Len(req[r].fullResponse) > 1) =>
      /\ req[r].pc \in {"saving", "finally"}
      /\ req[r].saveHistory \in {"pending", "done"}
      /\ req[r].saveMessage \in {"pending", "done"}
      /\ req[r].pc = "finally" =>
           /\ Did(r, "history") /\ Did(r, "message")
           /\ \E e \in store[RedisKeyOf(r)] : e.member = trim(req[r].fullResponse)
           /\ \E i \in DOMAIN messages :
                messages[i] = Message(trim(req[r].fullResponse), "system",
                                      req[r].user, req[r].chatId)

\* a request past its saves, the relational write made before the history write
C15_Witness ==
  \E r \in Reqs :
    /\ req[r].pc = "finally" /\ Len(req[r].fullResponse) = 2
    /\ \E i, j \in DOMAIN req[r].trace :
         i < j /\ req[r].trace[i] = "message" /\ req[r].trace[j] = "history"

\* C17: a request answered 401, 429 or 404 has made no history read, seed write
\* or append and has not invoked generation; a request answered 401 has started
\* neither the rate-limit check nor the relational write.
C17_ShortStatusNoHistory ==
  \A r \in Reqs :
    req[r].status \in {401, 429, 404} =>
      /\ req[r].pc = "done"
      /\ req[r].trace = <<>>
      /\ req[r].stream = "none" /\ req[r].fullResponse = <<>>
      /\ req[r].status = 401 =>
           /\ req[r].success = "idle" /\ req[r].userMessage = "idle"
           /\ req[r].companion = "idle"

\* one request answered 401 and the other 404, with nothing in any history
C17_Witness ==
  /\ \E r \in Reqs : req[r].status = 401
  /\ \E r \in Reqs : req[r].status = 404
  /\ \A k \in RedisKeys : store[k] = {}

\* C18: a history that holds a user turn or a response (an entry written at
\* Date.now()) holds the first seed line at score 0.
C18_SeedLineFirst ==
  \A k \in RedisKeys :
    (\E e \in store[k] : e.score >= Epoch) =>
      \E e \in store[k] : e.score = 0 /\ e.member = SeedLines[1]

\* C19: the recent turns a request loads do not depend on the order in which its
\* three operations run: the first request ever loads no turn, its own incoming
\* turn included, and is not flagged repetitive.
C19_OwnTurnNotLoaded ==
  \A r \in Reqs :
    (req[r].companion = "found" /\ \A o \in Reqs \ {r} : req[o].pc = "idle") =>
      /\ req[r].recentMessages = <<>>
      /\ ~isRepetitive(req[r].recentMessages, req[r].prompt)

====
